---- MODULE Spec2Model ----
(***************************************************************************)
(* es-bulk-loader: cmd/es-bulk-loader/main.go as a state machine.          *)
(*                                                                         *)
(* main() is one linear run.  It is cut into steps at the points where     *)
(* the environment answers it: the Elasticsearch cluster (one response     *)
(* per request) and the file system (one content per os.ReadFile).  The    *)
(* state after flag.Parse() is Init.  Every request the run issues is      *)
(* appended to `requests` together with the response it got, every file    *)
(* it reads to `reads`, every log line it writes to `logged`.              *)
(***************************************************************************)
EXTENDS Integers, Sequences, FiniteSets

\* ---------------------------------------------------------------- bounds
\* Largest number of documents in the data file.
MaxDocs == 3
\* Largest value of -batch (the smallest modelled values are -1 and 0).
MaxBatch == 3
\* A run with -batch 0 never leaves the upload loop: the model stops
\* following such a run after this many bulk requests.
MaxBulk == 3

VARIABLES
    user, pass, apiKey,        \* -user, -pass, -apiKey
    index, dataFile,           \* -index, -data
    settingsFile, mappingsFile,\* -settings, -mappings
    batchSize,                 \* -batch
    deleteIndex, addToIndex,   \* -delete, -add
    fs,                        \* content of the settings and mappings files
    cfg,                       \* elasticsearch.Config as built by main
    exists,                    \* main's local `exists`
    records, total, i,         \* main's locals of the upload loop
    requests,                  \* requests issued, with the response of each
    reads,                     \* paths given to os.ReadFile, in order
    logged,                    \* log lines written, in order
    pc, exitCode               \* position in main; process exit status

vars == << user, pass, apiKey, index, dataFile, settingsFile, mappingsFile,
           batchSize, deleteIndex, addToIndex, fs, cfg, exists, records,
           total, i, requests, reads, logged, pc, exitCode >>

flags == << user, pass, apiKey, index, dataFile, settingsFile, mappingsFile,
            batchSize, deleteIndex, addToIndex, fs >>

\* ------------------------------------------------------------ environment
\* What the cluster can answer to one request: a transport error (err), or
\* an HTTP response with a status code.
StatusCodes == {200, 404, 500}

Responses ==
    {[err |-> TRUE, status |-> 0]} \cup
    {[err |-> FALSE, status |-> s] : s \in StatusCodes}

\* esapi.Response.IsError as used by deleteAndCheck: status above 299.
IsError(res) == res.status > 299

\* What a settings or mappings file can hold: JSON, something that is not
\* JSON, or nothing readable at all.
ValidContent == "{\"number_of_shards\": 1}"

InvalidContent == "{\"number_of_shards\": "

Unreadable == "<unreadable>"

FileContents == {ValidContent, InvalidContent, Unreadable}

\* JSON validity of a fragment a create body is built from.
ValidJSON(s) == s \in {"{}", ValidContent}

\* The documents of a data file holding n objects: distinct, in file order.
Documents(n) == [k \in 1..n |-> k]

\* What os.ReadFile + json.Unmarshal can find at the data path.
DataFiles ==
    {[readable |-> FALSE, parses |-> FALSE, n |-> 0],
     [readable |-> TRUE, parses |-> FALSE, n |-> 0]} \cup
    {[readable |-> TRUE, parses |-> TRUE, n |-> n] : n \in 0..MaxDocs}

\* -------------------------------------------------------------- helpers
\* checkErr: a non-nil error is fatal.
checkErrIgnored(err) == FALSE

checkErr(err) == err

\* main, line 44: basic auth and API key given together.
AuthConflictAllThree(u, p, k) == u # "" /\ p # "" /\ k # ""

AuthConflict(u, p, k) == (u # "" \/ p # "") /\ k # ""

\* main, line 50: a required flag is missing.
MissingRequired(idx, data) == idx = "" \/ data = ""

\* main, lines 56-74: the client configuration.
ClientConfig(u, p, k) ==
    [Username |-> IF u # "" /\ p # "" THEN u ELSE "",
     Password |-> IF u # "" /\ p # "" THEN p ELSE "",
     APIKey   |-> k]

\* indexExists: (bool, error) from the response of the exists request.
indexExistsLenient(res) ==
    [exists |-> (~res.err /\ res.status = 200), err |-> res.err]

indexExists(res) ==
    IF res.err THEN [exists |-> FALSE, err |-> TRUE]
    ELSE IF res.status = 200 THEN [exists |-> TRUE, err |-> FALSE]
    ELSE IF res.status = 404 THEN [exists |-> FALSE, err |-> FALSE]
    ELSE [exists |-> FALSE, err |-> TRUE]

\* deleteAndCheck: whether the delete response makes the run fatal.
deleteFatalTransportOnly(res) == checkErr(res.err)

deleteFatal(res) == checkErr(res.err) \/ IsError(res)

\* main, lines 82-108: the branch the lifecycle switch takes.
LifecycleCaseAddFirst(ex, add, del) ==
    IF ex THEN
        IF add THEN "append"
        ELSE IF del THEN "delete"
        ELSE "fatal"
    ELSE "absent"

LifecycleCase(ex, add, del) ==
    IF ex THEN
        IF add /\ del THEN "delete_recreate"
        ELSE IF del THEN "delete"
        ELSE IF add THEN "append"
        ELSE "fatal"
    ELSE "absent"

\* buildCreateIndexBody's Sprintf: the fragments of the body, in order.
CreateBody(settings, mappings) ==
    << "{\"settings\": ", settings, ", \"mappings\": ", mappings, "}" >>

\* Whether a create body is JSON: both inserted fragments are.
ValidBody(body) == ValidJSON(body[2]) /\ ValidJSON(body[4])

\* The cluster never answers a body that is not JSON with a success status.
CreateResponses(body) ==
    IF ValidBody(body) THEN Responses
    ELSE {r \in Responses : r.err \/ r.status >= 400}

\* main, lines 132-135: the end of the batch that starts at i.
BatchEnd(at, size, n) ==
    IF at + size > n THEN n ELSE at + size

\* main, line 131: the loop's increment.
NextIndexSkip(at, size) == at + size + 1

NextIndex(at, size) == at + size

\* main, lines 137-147: the bulk body of a slice of documents, one action
\* line and one document line per document.
RECURSIVE BulkBody(_, _)
BulkBody(docs, idx) ==
    IF docs = << >> THEN << >>
    ELSE << [kind |-> "meta", index |-> idx, doc |-> 0],
            [kind |-> "doc", index |-> "", doc |-> Head(docs)] >>
         \o BulkBody(Tail(docs), idx)

\* ------------------------------------------------------------------ Init
Init ==
    /\ user \in {"", "elastic"}
    /\ pass \in {"", "secret"}
    /\ apiKey \in {"", "key"}
    /\ index \in {"", "my-index"}
    /\ dataFile \in {"", "data.json"}
    /\ settingsFile \in {"", "settings.json"}
    /\ mappingsFile \in {"", "mappings.json"}
    /\ batchSize \in {-1, 0} \cup 1..MaxBatch
    /\ deleteIndex \in BOOLEAN
    /\ addToIndex \in BOOLEAN
    /\ fs \in [settings : FileContents, mappings : FileContents]
    /\ (settingsFile = "" => fs.settings = Unreadable)
    /\ (mappingsFile = "" => fs.mappings = Unreadable)
    /\ cfg = [Username |-> "", Password |-> "", APIKey |-> ""]
    /\ exists = FALSE
    /\ records = << >>
    /\ total = 0
    /\ i = 0
    /\ requests = << >>
    /\ reads = << >>
    /\ logged = << >>
    /\ pc = "validate"
    /\ exitCode = -1

\* --------------------------------------------------------------- actions
Line(msg, n) == [msg |-> msg, n |-> n]

\* os.Exit(code), with the lines logged before it.
Exit(code, lines) ==
    /\ pc' = "exited"
    /\ exitCode' = code
    /\ logged' = logged \o lines

\* log.Fatal(): the line is logged and the process exits with status 1.
Fatal(msg) == Exit(1, << Line(msg, 0) >>)

\* main, lines 44-53.
Validate ==
    /\ pc = "validate"
    /\ IF AuthConflict(user, pass, apiKey)
       THEN Exit(1, << Line("Cannot use both basic auth and API key. Choose one method.", 0) >>)
       ELSE IF MissingRequired(index, dataFile)
       THEN Exit(1, << >>)
       ELSE /\ pc' = "client"
            /\ UNCHANGED << exitCode, logged >>
    /\ UNCHANGED << flags, cfg, exists, records, total, i, requests, reads >>

\* main, lines 55-76: elasticsearch.NewClient may refuse the configuration.
NewClient ==
    /\ pc = "client"
    /\ cfg' = ClientConfig(user, pass, apiKey)
    /\ \E err \in BOOLEAN :
          IF checkErr(err)
          THEN Fatal("Error during creating Elasticsearch client")
          ELSE /\ pc' = "exists"
               /\ UNCHANGED << exitCode, logged >>
    /\ UNCHANGED << flags, exists, records, total, i, requests, reads >>

\* main, lines 78-80, with indexExists.
CheckExists ==
    /\ pc = "exists"
    /\ \E res \in Responses :
          /\ requests' = Append(requests, [op |-> "exists", body |-> << >>, res |-> res])
          /\ LET r == indexExists(res) IN
                /\ exists' = r.exists
                /\ IF checkErr(r.err)
                   THEN Fatal("Error during checking if index exists")
                   ELSE /\ pc' = "lifecycle"
                        /\ UNCHANGED << exitCode, logged >>
    /\ UNCHANGED << flags, cfg, records, total, i, reads >>

\* main, lines 82-108, with deleteAndCheck.
Lifecycle ==
    /\ pc = "lifecycle"
    /\ LET case == LifecycleCase(exists, addToIndex, deleteIndex) IN
       IF case \in {"delete_recreate", "delete"} THEN
           \E res \in Responses :
              /\ requests' = Append(requests, [op |-> "delete", body |-> << >>, res |-> res])
              /\ LET intro == Line(IF case = "delete" THEN "Deleting index"
                                   ELSE "Deleting and recreating index before adding documents", 0)
                 IN IF checkErr(res.err)
                    THEN /\ Exit(1, << intro, Line("Error during deleting index", 0) >>)
                         /\ UNCHANGED exists
                    ELSE IF deleteFatal(res)
                    THEN /\ Exit(1, << intro, Line("Failed to delete index", 0) >>)
                         /\ UNCHANGED exists
                    ELSE /\ exists' = FALSE
                         /\ pc' = "create"
                         /\ logged' = Append(logged, intro)
                         /\ UNCHANGED exitCode
       ELSE IF case = "append" THEN
           /\ logged' = Append(logged, Line("Appending documents to existing index", 0))
           /\ pc' = "create"
           /\ UNCHANGED << exists, exitCode, requests >>
       ELSE IF case = "fatal" THEN
           /\ Fatal("Index exists. Use -delete to recreate or -add to append.")
           /\ UNCHANGED << exists, requests >>
       ELSE
           /\ logged' = logged
                \o (IF deleteIndex THEN << Line("Index does not exist. Nothing to delete.", 0) >> ELSE << >>)
                \o << Line(IF addToIndex THEN "Creating index to append documents"
                           ELSE "Creating index before loading data", 0) >>
           /\ pc' = "create"
           /\ UNCHANGED << exists, exitCode, requests >>
    /\ UNCHANGED << flags, cfg, records, total, i, reads >>

\* main, lines 110-117, with buildCreateIndexBody.
CreateIndex ==
    /\ pc = "create"
    /\ IF exists THEN
           /\ pc' = "load"
           /\ UNCHANGED << exitCode, logged, requests, reads >>
       ELSE IF settingsFile # "" /\ fs.settings = Unreadable THEN
           /\ reads' = Append(reads, settingsFile)
           /\ Fatal("Reading settings file")
           /\ UNCHANGED requests
       ELSE IF mappingsFile # "" /\ fs.mappings = Unreadable THEN
           /\ reads' = reads
                \o (IF settingsFile # "" THEN << settingsFile >> ELSE << >>)
                \o << mappingsFile >>
           /\ Fatal("Reading mappings file")
           /\ UNCHANGED requests
       ELSE
           LET body == CreateBody(IF settingsFile # "" THEN fs.settings ELSE "{}",
                                  IF mappingsFile # "" THEN fs.mappings ELSE "{}")
           IN /\ reads' = reads
                   \o (IF settingsFile # "" THEN << settingsFile >> ELSE << >>)
                   \o (IF mappingsFile # "" THEN << mappingsFile >> ELSE << >>)
              /\ \E res \in CreateResponses(body) :
                    /\ requests' = Append(requests, [op |-> "create", body |-> body, res |-> res])
                    /\ IF checkErr(res.err)
                       THEN Fatal("Error during creating index")
                       ELSE /\ logged' = Append(logged, Line("Index created", 0))
                            /\ pc' = "load"
                            /\ UNCHANGED exitCode
    /\ UNCHANGED << flags, cfg, exists, records, total, i >>

\* main, lines 119-130.
LoadData ==
    /\ pc = "load"
    /\ reads' = Append(reads, dataFile)
    /\ \E f \in DataFiles :
          IF checkErr(~f.readable) THEN
              /\ Fatal("Error during reading data file")
              /\ UNCHANGED << records, total >>
          ELSE IF checkErr(~f.parses) THEN
              /\ Fatal("Error during parsing data JSON")
              /\ UNCHANGED << records, total >>
          ELSE
              /\ records' = Documents(f.n)
              /\ total' = f.n
              /\ logged' = Append(logged, Line("Starting bulk insert", f.n))
              /\ pc' = "upload"
              /\ UNCHANGED exitCode
    /\ UNCHANGED << flags, cfg, exists, i, requests >>

NumBulk == Cardinality({k \in 1..Len(requests) : requests[k].op = "bulk"})

\* main, lines 131-161: one iteration of the upload loop.
UploadBatch ==
    /\ pc = "upload"
    /\ i < total
    /\ (batchSize = 0 => NumBulk < MaxBulk)
    /\ LET end == BatchEnd(i, batchSize, total) IN
       IF end < i THEN
           \* records[i:end] with end < i: the runtime panics, exit status 2.
           /\ Exit(2, << Line("panic: slice bounds out of range", 0) >>)
           /\ UNCHANGED << i, requests >>
       ELSE
           LET body == BulkBody(SubSeq(records, i + 1, end), index) IN
           \E res \in Responses :
              /\ requests' = Append(requests, [op |-> "bulk", body |-> body, res |-> res])
              /\ IF checkErr(res.err)
                 THEN /\ Fatal("Error during bulk insert")
                      /\ UNCHANGED i
                 ELSE /\ logged' = Append(logged, Line("Batch inserted", end))
                      /\ i' = NextIndex(i, batchSize)
                      /\ UNCHANGED << pc, exitCode >>
    /\ UNCHANGED << flags, cfg, exists, records, total, reads >>

\* main, lines 131 and 163-165: the loop condition fails and main returns.
Finish ==
    /\ pc = "upload"
    /\ ~(i < total)
    /\ Exit(0, << Line("Bulk load completed", 0) >>)
    /\ UNCHANGED << flags, cfg, exists, records, total, i, requests, reads >>

Next ==
    \/ Validate
    \/ NewClient
    \/ CheckExists
    \/ Lifecycle
    \/ CreateIndex
    \/ LoadData
    \/ UploadBatch
    \/ Finish

Spec == Init /\ [][Next]_vars

\* ------------------------------------------------- reading the run back
Range(seq) == {seq[k] : k \in 1..Len(seq)}

\* The operations requested so far, in issue order.
Ops == [k \in 1..Len(requests) |-> requests[k].op]

Count(op) == Cardinality({k \in 1..Len(requests) : requests[k].op = op})

\* The bulk requests issued so far, in issue order.
Bulks == SelectSeq(requests, LAMBDA r : r.op = "bulk")

\* The documents a bulk body carries: its document lines, in order.
DocsOf(body) == [k \in 1..(Len(body) \div 2) |-> body[2 * k].doc]

\* The documents of the first n bulk requests, concatenated in issue order.
RECURSIVE SentUpTo(_)
SentUpTo(n) == IF n = 0 THEN << >> ELSE SentUpTo(n - 1) \o DocsOf(Bulks[n].body)

Sent == SentUpTo(Len(Bulks))

Ceil(n, b) == (n + b - 1) \div b

\* The answer the existence check got.
Present == Len(requests) >= 1 /\ ~requests[1].res.err /\ requests[1].res.status = 200

Absent == Len(requests) >= 1 /\ ~requests[1].res.err /\ requests[1].res.status = 404

\* The run got past the lifecycle step and the index creation.
LifecycleDone == pc = "load" \/ dataFile \in Range(reads)

FatalExit == pc = "exited" /\ exitCode = 1

HttpSuccess(res) == ~res.err /\ res.status \in 200..299

\* ---------------------------------------------------------------- claims

\* C1: the index-lifecycle step performs exactly the action of the decision
\* table.  Index absent, any flags: no delete request, and the second request
\* is the one create request.  Index present with -add only: neither a delete
\* nor a create request.  Index present with -delete (with or without -add):
\* the second request is the delete and, the delete having succeeded, the
\* third is the create.  Index present with neither flag: fatal exit with the
\* exists request as the only request ever issued.
C1_LifecycleDecisionTable ==
    (Len(requests) >= 1 /\ pc # "lifecycle") =>
        /\ Count("delete") <= 1 /\ Count("create") <= 1
        /\ Absent =>
              /\ Count("delete") = 0
              /\ (LifecycleDone => Len(requests) >= 2 /\ Ops[2] = "create")
        /\ (Present /\ addToIndex /\ ~deleteIndex) =>
              /\ Count("delete") = 0 /\ Count("create") = 0
              /\ ~FatalExit \/ LifecycleDone
        /\ (Present /\ deleteIndex) =>
              /\ Len(requests) >= 2 /\ Ops[2] = "delete"
              /\ (Count("create") = 1 => Ops[3] = "create")
              /\ (LifecycleDone => Count("create") = 1)
        /\ (Present /\ ~addToIndex /\ ~deleteIndex) =>
              /\ FatalExit
              /\ Ops = << "exists" >>
              /\ reads = << >>

C1_Witness_DeleteThenCreate ==
    /\ Present /\ deleteIndex /\ addToIndex /\ LifecycleDone
    /\ Len(requests) >= 3 /\ Ops[2] = "delete" /\ Ops[3] = "create"

\* C2: with a batch size B >= 1, every bulk request carries a contiguous
\* slice of at most B documents in the bulk format, only the last one issued
\* on a completed run may be shorter than B, the batches concatenated in
\* issue order are a prefix of the document sequence, and a run that
\* completes has issued exactly ceil(N/B) bulk requests whose concatenation
\* is the whole document sequence.
C2_BatchesPartitionDocuments ==
    batchSize >= 1 =>
        /\ \A k \in 1..Len(Bulks) :
              /\ Bulks[k].body = BulkBody(DocsOf(Bulks[k].body), index)
              /\ Len(DocsOf(Bulks[k].body)) \in 1..batchSize
              /\ (k < Len(Bulks) => Len(DocsOf(Bulks[k].body)) = batchSize)
        /\ Len(Sent) <= total
        /\ Sent = SubSeq(records, 1, Len(Sent))
        /\ (pc = "exited" /\ exitCode = 0) =>
              /\ Len(Bulks) = Ceil(total, batchSize)
              /\ Sent = records

C2_Witness_LastBatchShorter ==
    /\ pc = "exited" /\ exitCode = 0
    /\ total = 3 /\ batchSize = 2
    /\ Len(Bulks) = 2 /\ Len(DocsOf(Bulks[2].body)) = 1

\* C3: a create request that got a transport error or a non-2xx response is
\* the last request of the run, which exits with status 1 without reading
\* the data file or issuing a bulk request.
C3_CreateFailureFatal ==
    \A k \in 1..Len(requests) :
        (requests[k].op = "create" /\ ~HttpSuccess(requests[k].res)) =>
            /\ k = Len(requests)
            /\ FatalExit
            /\ dataFile \notin Range(reads)
            /\ Count("bulk") = 0

\* C4: when a settings or mappings file that the run reads holds something
\* that is not JSON, the run never reads the data file, never issues a bulk
\* request, and ends in a fatal error.
C4_MalformedJSONFatal ==
    ((settingsFile \in Range(reads) /\ fs.settings = InvalidContent)
        \/ (mappingsFile \in Range(reads) /\ fs.mappings = InvalidContent)) =>
        /\ dataFile \notin Range(reads)
        /\ Count("bulk") = 0
        /\ (pc = "exited" => exitCode = 1)

\* C5: with an API key given together with a username or a password, or with
\* -index or -data empty, the run issues no request and reads no file, and
\* its only step is the exit with status 1.
C5_InvalidConfigNoNetwork ==
    (((user # "" \/ pass # "") /\ apiKey # "") \/ index = "" \/ dataFile = "") =>
        /\ requests = << >>
        /\ reads = << >>
        /\ pc = "validate" \/ FatalExit

C5_Witness_UserAndApiKey ==
    /\ user # "" /\ pass = "" /\ apiKey # ""
    /\ index # "" /\ dataFile # ""
    /\ FatalExit /\ requests = << >>

\* C6: a bulk request that got a transport error is the last request of the
\* run (no later batch is sent, the failed one is not sent again), and the
\* run has exited with status 1.
C6_BulkTransportErrorFatal ==
    \A k \in 1..Len(requests) :
        (requests[k].op = "bulk" /\ requests[k].res.err) =>
            /\ k = Len(requests)
            /\ FatalExit
            /\ i < total

C6_Witness_SecondBatchFails ==
    /\ Len(Bulks) = 2 /\ Bulks[2].res.err /\ ~Bulks[1].res.err
    /\ Len(Sent) < total
    /\ FatalExit

\* C7: the existence check yields present only for status 200 and absent
\* only for status 404; after a transport error or any other status the run
\* has exited with status 1 and the exists request is the only request.
C7_ExistsCheck ==
    Len(requests) >= 1 =>
        LET res == requests[1].res IN
        /\ requests[1].op = "exists"
        /\ (pc = "lifecycle" =>
              /\ ~res.err
              /\ (exists => res.status = 200)
              /\ (~exists => res.status = 404))
        /\ (res.err \/ res.status \notin {200, 404}) =>
              /\ FatalExit
              /\ Len(requests) = 1
              /\ reads = << >>
        /\ (~res.err /\ res.status \in {200, 404} /\ Len(requests) = 1) =>
              \A k \in 1..Len(logged) :
                  logged[k].msg # "Error during checking if index exists"

C7_Witness_UnexpectedStatus ==
    /\ Len(requests) = 1 /\ ~requests[1].res.err /\ requests[1].res.status = 500
    /\ FatalExit

\* C8: a delete request that got a transport error or an error status is
\* the last request of the run, which has exited with status 1; so a create
\* request follows a delete only when that delete succeeded.
C8_DeleteFailureFatal ==
    \A k \in 1..Len(requests) :
        requests[k].op = "delete" =>
            LET res == requests[k].res IN
            /\ (res.err \/ res.status >= 400) =>
                  /\ k = Len(requests)
                  /\ FatalExit
                  /\ reads = << >>
            /\ (k < Len(requests) => requests[k + 1].op = "create" /\ HttpSuccess(res))

C8_Witness_DeleteErrorStatus ==
    /\ Len(requests) = 2 /\ requests[2].op = "delete"
    /\ ~requests[2].res.err /\ requests[2].res.status = 500
    /\ FatalExit

\* The "Batch inserted" lines logged so far.
InsertedLog == SelectSeq(logged, LAMBDA l : l.msg = "Batch inserted")

\* The documents of the bulk requests, among the first n, that got an HTTP
\* success response.
RECURSIVE SucceededUpTo(_)
SucceededUpTo(n) ==
    IF n = 0 THEN 0
    ELSE SucceededUpTo(n - 1)
         + (IF HttpSuccess(Bulks[n].res) THEN Len(DocsOf(Bulks[n].body)) ELSE 0)

\* C9: with a batch size B >= 1, there is one "Batch inserted" line per bulk
\* request that got an HTTP success response, and the count of the last line
\* is the number of documents in those requests.
C9_InsertedCountsSuccessfulBatches ==
    batchSize >= 1 =>
        /\ Len(InsertedLog) =
              Cardinality({k \in 1..Len(Bulks) : HttpSuccess(Bulks[k].res)})
        /\ (Len(InsertedLog) > 0 =>
              InsertedLog[Len(InsertedLog)].n = SucceededUpTo(Len(Bulks)))

\* C10: in the upload loop, once an iteration has issued its bulk request,
\* the batch size is a positive integer and the loop index has advanced by at
\* least one per request issued; the run never issues more bulk requests
\* than there are documents.
C10_UploadLoopTerminates ==
    /\ (pc = "upload" /\ Len(Bulks) >= 1) =>
          /\ batchSize >= 1
          /\ i >= Len(Bulks)
    /\ Len(Bulks) <= total

====
